---- MODULE Spec2Model ----
(***************************************************************************)
(* A model of pgbouncer-config's database routing entries (Database,       *)
(* DatabasesSetting), of the concurrent discovery of database names        *)
(* (DatabasesSetting::add_database_from_hosts) and of the SSH port         *)
(* forwarder it uses (SSHTunnel, SSHTunnelHandler).                        *)
(*                                                                         *)
(* Database names are modelled as the integers 1..MaxName: only their      *)
(* order (String's Ord, used by Vec::sort) and equality are used.          *)
(***************************************************************************)
EXTENDS Integers, Sequences, FiniteSets, TLC

VARIABLES
    route,          \* a Database value a caller is building (or NoDatabase)
    databases,      \* DatabasesSetting.databases : Vec<Database>
    \* --- one call of DatabasesSetting::add_database_from_hosts ---
    before,         \* history: self.databases when the call started
    target_hosts,   \* the target_hosts argument: None or Some(set of hosts)
    spawn_idx,      \* the entry the `for database in &self.databases` loop is at
    tasks,          \* per entry: the discovery task spawned for it (or NoTask)
    call_pc,        \* "idle" | "spawn" | "returned"
    call_result,    \* what the call returned: "Ok" or an error kind
    \* --- one SSHTunnel::run and the tunnel it starts ---
    tunnel,         \* the SSHTunnel value run() is called on
    run_pc,         \* position inside SSHTunnel::run
    run_result,     \* what run() returned: "Ok" (a handle) or an error kind
    session,        \* the SSH session to the bastion
    auth_success,   \* the bastion's answer to the authentication request
    listener,       \* the local TcpListener
    local_addr,     \* the port the listener is bound to (0: none)
    shutdown_tx,    \* the watch::Sender held by the SSHTunnelHandler
    loop_pc,        \* position of the spawned accept-loop task
    loop_result,    \* what the accept-loop task returned
    conns,          \* local client connections made to the tunnel
    \* --- one call of Database::push_databases ---
    names_arg,      \* the `databases` argument of the call
    old_route,      \* history: the Database the call was made on (or NoDatabase)
    \* --- a PgBouncerConfigBuilder ---
    builder,        \* the builder (or NoBuilder before new() / builder())
    call,           \* history: the last builder call, its result and the builder before it
    built           \* what build() returned last: None or Some(settings)

collVars == <<route, databases>>
discVars == <<before, target_hosts, spawn_idx, tasks, call_pc, call_result>>
tunVars == <<tunnel, run_pc, run_result, session, auth_success, listener,
             local_addr, shutdown_tx, loop_pc, loop_result, conns>>
pushVars == <<names_arg, old_route>>
builderVars == <<builder, call, built>>
vars == <<route, databases, before, target_hosts, spawn_idx, tasks, call_pc,
          call_result, tunnel, run_pc, run_result, session, auth_success,
          listener, local_addr, shutdown_tx, loop_pc, loop_result, conns,
          names_arg, old_route, builder, call, built>>

(***************************************************************************)
(* Bounds of the model.                                                    *)
(***************************************************************************)
MaxName == 3
MaxLen == 3
MaxRoutes == 3

Names == 1..MaxName
\* the name lists a caller can pass: every sequence of at most MaxLen names
NameLists == UNION {[1..n -> Names] : n \in 0..MaxLen}

Hosts == {"h1", "h2"}
Ports == {5432}
Users == {"postgres"}
Passwords == {"w1", "w2"}

NoDatabase == [none |-> TRUE]

\* Option<T>
None == [some |-> FALSE]
Some(x) == [some |-> TRUE, v |-> x]
unwrap_or(opt, default) == IF opt.some THEN opt.v ELSE default

(***************************************************************************)
(* Vec<String> helpers: sort (ascending, stable) and dedup (removes        *)
(* CONSECUTIVE equal elements only, as Vec::dedup does).                   *)
(***************************************************************************)
RECURSIVE Insert(_, _)
Insert(x, s) ==
    IF s = <<>> THEN <<x>>
    ELSE IF x < Head(s) THEN <<x>> \o s
    ELSE <<Head(s)>> \o Insert(x, Tail(s))

RECURSIVE Sort(_)
Sort(s) == IF s = <<>> THEN <<>> ELSE Insert(Head(s), Sort(Tail(s)))

RECURSIVE Dedup(_)
Dedup(s) ==
    IF Len(s) <= 1 THEN s
    ELSE IF s[1] = s[2] THEN Dedup(Tail(s))
    ELSE <<s[1]>> \o Dedup(Tail(s))

\* used to state properties of name lists
Range(s) == {s[i] : i \in DOMAIN s}
NoDuplicates(s) == \A i, j \in DOMAIN s : i # j => s[i] # s[j]
IsSorted(s) == \A i, j \in DOMAIN s : i < j => s[i] <= s[j]

(***************************************************************************)
(* Database                                                                *)
(***************************************************************************)
\* Database::new: the given names are stored as given
Database_new(host, port, user, password, names) ==
    [host |-> host, port |-> port, user |-> user, password |-> password,
     databases |-> names,
     ignore_databases |-> <<>>,
     ssh_tunneling |-> None,
     is_output_credentials_to_config |-> FALSE]

\* Database::push_databases: extend, sort, dedup
push_databases_unsorted(db, names) ==
    [db EXCEPT !.databases = Dedup(db.databases \o names)]
push_databases(db, names) ==
    [db EXCEPT !.databases = Dedup(Sort(db.databases \o names))]

\* Database::add_database: push, sort, dedup
Database_add_database(db, name) ==
    [db EXCEPT !.databases = Dedup(Sort(Append(db.databases, name)))]

(***************************************************************************)
(* DatabasesSetting                                                        *)
(***************************************************************************)
RECURSIVE FoldPush(_, _)
FoldPush(db, rest) ==
    IF rest = <<>> THEN db
    ELSE FoldPush(push_databases(db, Head(rest).databases), Tail(rest))

\* DatabasesSetting::merge_databases: the first entry, with the names of
\* every later entry pushed into it
merge_databases_into_last(dbs) ==
    FoldPush(dbs[Len(dbs)], SubSeq(dbs, 1, Len(dbs) - 1))
merge_databases(dbs) == FoldPush(Head(dbs), Tail(dbs))

SameBackend(db, database) ==
    /\ db.host = database.host
    /\ db.port = database.port
    /\ db.user = database.user
    /\ db.password = database.password

\* DatabasesSetting::add_database: the new value of self.databases
add_database(dbs, database) ==
    LET Same(db) == SameBackend(db, database)
        same_databases == SelectSeq(dbs, Same)
    IN  IF Len(same_databases) > 0
        THEN Append(dbs, merge_databases(Append(same_databases, database)))
        ELSE Append(dbs, database)

(***************************************************************************)
(* States of the parts of the model a specification does not exercise      *)
(***************************************************************************)
NoTask == [pc |-> "none"]
\* crate::error::Result<()> of the call: not returned yet, or Ok(())
NoResult == [ok |-> FALSE, err |-> "none", from |-> 0]
OkResult == [ok |-> TRUE, err |-> "none", from |-> 0]

DiscIdle ==
    /\ before = <<>>
    /\ target_hosts = None
    /\ spawn_idx = 0
    /\ tasks = <<>>
    /\ call_pc = "idle"
    /\ call_result = NoResult

TunIdle ==
    /\ tunnel = None
    /\ run_pc = "idle"
    /\ run_result = "none"
    /\ session = "none"
    /\ auth_success = "none"
    /\ listener = "none"
    /\ local_addr = 0
    /\ shutdown_tx = "none"
    /\ loop_pc = "none"
    /\ loop_result = "none"
    /\ conns = <<>>

NoBuilder == [none |-> TRUE]
NoCall == [op |-> "none"]

PushIdle ==
    /\ names_arg = <<>>
    /\ old_route = NoDatabase

BuilderIdle ==
    /\ builder = NoBuilder
    /\ call = NoCall
    /\ built = None

(***************************************************************************)
(* Building one Database value: new, then push_databases / add_database    *)
(***************************************************************************)
NewDatabase ==
    /\ \E h \in Hosts, p \in Ports, u \in Users, w \in Passwords, names \in NameLists :
          route' = Database_new(h, p, u, w, names)
    /\ UNCHANGED <<databases, discVars, tunVars, pushVars, builderVars>>

PushDatabases ==
    /\ route # NoDatabase
    /\ \E names \in NameLists : route' = push_databases(route, names)
    /\ UNCHANGED <<databases, discVars, tunVars, pushVars, builderVars>>

AddDatabaseName ==
    /\ route # NoDatabase
    /\ \E name \in Names : route' = Database_add_database(route, name)
    /\ UNCHANGED <<databases, discVars, tunVars, pushVars, builderVars>>

InitRoute ==
    /\ route = NoDatabase
    /\ databases = <<>>
    /\ DiscIdle
    /\ TunIdle
    /\ PushIdle
    /\ BuilderIdle

NextRoute == NewDatabase \/ PushDatabases \/ AddDatabaseName

SpecRoute == InitRoute /\ [][NextRoute]_vars

(***************************************************************************)
(* One call of Database::push_databases, on any Database and with any      *)
(* slice (Database::new stores the list it is given as it is, so the       *)
(* current list can be any list)                                           *)
(***************************************************************************)
CallPushDatabases ==
    /\ old_route = NoDatabase
    /\ old_route' = route
    /\ route' = push_databases(route, names_arg)
    /\ UNCHANGED <<databases, names_arg, discVars, tunVars, builderVars>>

InitPush ==
    /\ route \in {Database_new("h1", 5432, "postgres", "w1", cur) : cur \in NameLists}
    /\ names_arg \in NameLists
    /\ old_route = NoDatabase
    /\ databases = <<>>
    /\ DiscIdle
    /\ TunIdle
    /\ BuilderIdle

NextPush == CallPushDatabases

SpecPush == InitPush /\ [][NextPush]_vars

(***************************************************************************)
(* Adding Database values to a DatabasesSetting                            *)
(***************************************************************************)
\* the name lists of the values added to a collection
CollLists == {<<>>, <<1>>, <<2>>, <<1, 2>>, <<2, 1>>, <<1, 1>>}

AddDatabase ==
    /\ Len(databases) < MaxRoutes
    /\ \E h \in Hosts, p \in Ports, u \in Users, w \in Passwords, names \in CollLists :
          databases' = add_database(databases, Database_new(h, p, u, w, names))
    /\ UNCHANGED <<route, discVars, tunVars, pushVars, builderVars>>

InitColl ==
    /\ route = NoDatabase
    /\ databases = <<>>
    /\ DiscIdle
    /\ TunIdle
    /\ PushIdle
    /\ BuilderIdle

NextColl == AddDatabase

SpecColl == InitColl /\ [][NextColl]_vars

\* C5: after any sequence of DatabasesSetting::add_database calls the
\* collection holds exactly one entry per distinct (host, port, user,
\* password).
C5_OneRoutePerBackend ==
    \A i, j \in DOMAIN databases :
        i # j => ~SameBackend(databases[i], databases[j])

\* C6: in every reachable state of a Database (after Database::new with any
\* name list and after any sequence of push_databases and add_database), its
\* databases list contains no duplicate name.
C6_NoDuplicateNames ==
    route # NoDatabase => NoDuplicates(route.databases)

(***************************************************************************)
(* DatabasesSetting::add_database_from_hosts                               *)
(*                                                                         *)
(* The call takes &self: it clones each selected entry into a temp_db,     *)
(* spawns one task per clone that runs get_databases_from_host on it,      *)
(* awaits every task with join_all and returns the first error in spawn    *)
(* order. A task is modelled step by step (its awaits are the points where *)
(* other tasks run); opening the tunnel is one step here, and is modelled  *)
(* in detail by SSHTunnel::run below.                                      *)
(***************************************************************************)
\* SSHTunnelBuilder::new
SSHTunnelBuilder_new(host, user, auth, remote_host) ==
    [host |-> host, port |-> None, user |-> user, auth |-> auth,
     local_port |-> None, remote_host |-> remote_host, remote_port |-> None]

\* Database::set_ssh_tunnel
set_ssh_tunnel(db, ssh_tunnel) == [db EXCEPT !.ssh_tunneling = Some(ssh_tunnel)]

\* impl From<SSHTunnelBuilder> for SSHTunnel
SSHTunnel_from(value) ==
    [bastion_host |-> value.host,
     bastion_port |-> unwrap_or(value.port, 22),
     bastion_user |-> value.user,
     bastion_auth |-> value.auth,
     local_port |-> unwrap_or(value.local_port, 0),
     pg_host |-> value.remote_host,
     pg_port |-> unwrap_or(value.remote_port, 5432)]

\* SSHTunnelBuilder::set_local_port
set_local_port(b, local_port) == [b EXCEPT !.local_port = Some(local_port)]

\* the port the OS assigns to a listener bound to port 0
EphemeralPort == 49152

\* the address SSHTunnel::run binds: ("127.0.0.1", self.local_port), where
\* port 0 asks the OS for a free port
BoundPort(local_port) == IF local_port = 0 THEN EphemeralPort ELSE local_port

\* the entries the collections of this specification are made of
DiscRoutes ==
    { Database_new("h1", 5432, "postgres", "w1", <<>>),
      set_ssh_tunnel(Database_new("h1", 5432, "postgres", "w2", <<2>>),
                     SSHTunnelBuilder_new("bastion", "ubuntu", "Password", "h1")),
      Database_new("h2", 5432, "postgres", "w1", <<2, 1>>) }

\* what `SELECT datname ... ORDER BY datname` can return: sorted, unique
DiscoveredLists == {<<1>>, <<2, 3>>}

\* the error kinds SSHTunnel::run returns
RunErrors == {"SshConnection", "SshKey", "Connection", "Io"}

\* `hosts`: the filter as the call builds it (None becomes the empty list)
HostsOf(th) == IF th.some THEN th.v ELSE {}

\* the `continue` of the spawn loop:
\* hosts.len() > 0 && !hosts.contains(&database.host().to_string())
SkippedNever(hosts, database) == FALSE
SkippedUnlessListed(hosts, database) == database.host \notin hosts
Skipped(hosts, database) ==
    Cardinality(hosts) > 0 /\ database.host \notin hosts

Running(t) == t.pc \notin {"none", "finished"}

\* a task ends: its future returns `res`; an Option<SSHTunnelHandler> still
\* held is dropped, which drops its shutdown_tx
\* no task has failed so far
NoFailureYet ==
    \A j \in DOMAIN tasks :
        IF tasks[j].pc = "none" THEN TRUE ELSE tasks[j].res \in {"running", "Ok"}

FinishKeepsTunnel(t, res) ==
    [t EXCEPT !.pc = "finished", !.res = res, !.first_failure = NoFailureYet]
Finish(t, res) ==
    [t EXCEPT !.pc = "finished", !.res = res,
              !.first_failure = NoFailureYet,
              !.ssh_session = IF t.ssh_session = "open" THEN "dropped"
                              ELSE t.ssh_session]

\* the Arc<Mutex<Database>> the task of entry i locks: the one the spawn loop
\* made for that entry (Arc::new(Mutex::new(database.clone())))
mutex_of_shared(i) == CHOOSE m \in DOMAIN tasks : TRUE
mutex_of(i) == i

\* a task holds its MutexGuard (temp_db_lock) from its first poll until its
\* future returns
HoldsLock(t) == t.pc \in {"tunnel", "connected", "queried", "pushed"}

\* temp_db_clone.lock().await completes for task i: no other task holds
\* the mutex
LockFree(i) ==
    \A j \in DOMAIN tasks \ {i} :
        ~(HoldsLock(tasks[j]) /\ mutex_of(j) = mutex_of(i))

\* the for loop over &self.databases: skip the entry ...
SkipRoute ==
    /\ call_pc = "spawn"
    /\ spawn_idx <= Len(databases)
    /\ Skipped(HostsOf(target_hosts), databases[spawn_idx])
    /\ spawn_idx' = spawn_idx + 1
    /\ UNCHANGED <<collVars, before, target_hosts, tasks, call_pc, call_result, tunVars, pushVars, builderVars>>

\* ... or clone it and spawn its task
SpawnTask ==
    /\ call_pc = "spawn"
    /\ spawn_idx <= Len(databases)
    /\ ~Skipped(HostsOf(target_hosts), databases[spawn_idx])
    /\ tasks' = [tasks EXCEPT ![spawn_idx] =
                    [pc |-> "spawned", temp_db |-> databases[spawn_idx],
                     ssh_session |-> "None", local_addr |-> 0,
                     tunnel_loop |-> "none", target |-> None,
                     db_names |-> <<>>, res |-> "running",
                     tunnel_attempts |-> 0, connect_attempts |-> 0,
                     query_attempts |-> 0, first_failure |-> FALSE]]
    /\ spawn_idx' = spawn_idx + 1
    /\ UNCHANGED <<collVars, before, target_hosts, call_pc, call_result, tunVars, pushVars, builderVars>>

\* get_databases_from_host: SSHTunnel::from(..).run().await?
TaskOpenTunnel(i) ==
    /\ tasks[i].pc = "spawned"
    /\ LockFree(i)
    /\ tasks[i].temp_db.ssh_tunneling.some
    /\ \/ tasks' = [tasks EXCEPT
                       ![i].pc = "tunnel",
                       ![i].ssh_session = "open",
                       ![i].local_addr =
                           BoundPort(SSHTunnel_from(tasks[i].temp_db.ssh_tunneling.v).local_port),
                       ![i].tunnel_loop = "running",
                       ![i].tunnel_attempts = @ + 1]
       \/ \E e \in RunErrors :
             tasks' = [tasks EXCEPT ![i] = Finish([@ EXCEPT !.tunnel_attempts = @ + 1], e)]
    /\ UNCHANGED <<collVars, before, target_hosts, spawn_idx, call_pc, call_result, tunVars, pushVars, builderVars>>

\* get_databases_from_host: (db_host, db_port) is the handle's local address
\* if an SSHTunnelHandler is held, the entry's own host and port otherwise
connect_target_own_host(t) == [host |-> t.temp_db.host, port |-> t.temp_db.port]
connect_target(t) ==
    IF t.ssh_session = "open"
    THEN [host |-> "127.0.0.1", port |-> t.local_addr]
    ELSE [host |-> t.temp_db.host, port |-> t.temp_db.port]

\* get_databases_from_host: PgClient::new(db_host, db_port, ..).await?
TaskConnectRetrying(i) ==
    /\ \/ tasks[i].pc = "spawned" /\ ~tasks[i].temp_db.ssh_tunneling.some /\ LockFree(i)
       \/ tasks[i].pc = "tunnel"
    /\ tasks[i].connect_attempts < 2
    /\ LET t == [tasks[i] EXCEPT !.target = Some(connect_target(tasks[i])),
                                 !.connect_attempts = @ + 1]
       IN  \/ tasks' = [tasks EXCEPT ![i] = [t EXCEPT !.pc = "connected"]]
           \/ tasks' = [tasks EXCEPT ![i] = t]
           \/ tasks' = [tasks EXCEPT ![i] = Finish(t, "Sqlx")]
    /\ UNCHANGED <<collVars, before, target_hosts, spawn_idx, call_pc, call_result, tunVars, pushVars, builderVars>>
TaskConnect(i) ==
    /\ \/ tasks[i].pc = "spawned" /\ ~tasks[i].temp_db.ssh_tunneling.some /\ LockFree(i)
       \/ tasks[i].pc = "tunnel"
    /\ LET t == [tasks[i] EXCEPT !.target = Some(connect_target(tasks[i])),
                                 !.connect_attempts = @ + 1]
       IN  \/ tasks' = [tasks EXCEPT ![i] = [t EXCEPT !.pc = "connected"]]
           \/ tasks' = [tasks EXCEPT ![i] = Finish(t, "Sqlx")]
    /\ UNCHANGED <<collVars, before, target_hosts, spawn_idx, call_pc, call_result, tunVars, pushVars, builderVars>>

\* get_databases_from_host: client.get_databases().await?
TaskQueryEarly(i) ==
    /\ tasks[i].pc \in {"spawned", "tunnel", "connected"}
    /\ \/ \E names \in DiscoveredLists :
             tasks' = [tasks EXCEPT ![i].pc = "queried", ![i].db_names = names,
                                    ![i].query_attempts = @ + 1]
       \/ tasks' = [tasks EXCEPT ![i] = Finish([@ EXCEPT !.query_attempts = @ + 1], "Sqlx")]
    /\ UNCHANGED <<collVars, before, target_hosts, spawn_idx, call_pc, call_result, tunVars, pushVars, builderVars>>
TaskQuery(i) ==
    /\ tasks[i].pc = "connected"
    /\ \/ \E names \in DiscoveredLists :
             tasks' = [tasks EXCEPT ![i].pc = "queried", ![i].db_names = names,
                                    ![i].query_attempts = @ + 1]
       \/ tasks' = [tasks EXCEPT ![i] = Finish([@ EXCEPT !.query_attempts = @ + 1], "Sqlx")]
    /\ UNCHANGED <<collVars, before, target_hosts, spawn_idx, call_pc, call_result, tunVars, pushVars, builderVars>>

\* get_databases_from_host: self.push_databases(&db_names), on the clone
TaskPush(i) ==
    /\ tasks[i].pc = "queried"
    /\ tasks' = [tasks EXCEPT ![i].pc = "pushed",
                              ![i].temp_db = push_databases(@, tasks[i].db_names)]
    /\ UNCHANGED <<collVars, before, target_hosts, spawn_idx, call_pc, call_result, tunVars, pushVars, builderVars>>

\* get_databases_from_host: ssh_session.shutdown().await if any; Ok(())
TaskReturn(i) ==
    /\ tasks[i].pc = "pushed"
    /\ tasks' = [tasks EXCEPT ![i] =
                    [@ EXCEPT !.pc = "finished", !.res = "Ok",
                              !.ssh_session = IF @ = "open" THEN "shutdown" ELSE @]]
    /\ UNCHANGED <<collVars, before, target_hosts, spawn_idx, call_pc, call_result, tunVars, pushVars, builderVars>>

\* the task does not complete normally (it panics or is cancelled): its
\* JoinHandle yields a JoinError
TaskPanic(i) ==
    /\ Running(tasks[i])
    /\ tasks' = [tasks EXCEPT ![i] = Finish(@, "Join")]
    /\ UNCHANGED <<collVars, before, target_hosts, spawn_idx, call_pc, call_result, tunVars, pushVars, builderVars>>

\* the accept loop of the tunnel a task opened: once the handle's shutdown_tx
\* is dropped (by shutdown() or with the handle), shutdown_rx.changed()
\* resolves, the loop breaks, disconnects the session and its task ends
TaskTunnelLoopExit(i) ==
    /\ i \in DOMAIN tasks
    /\ tasks[i].pc # "none"
    /\ tasks[i].tunnel_loop = "running"
    /\ tasks[i].ssh_session \in {"shutdown", "dropped"}
    /\ tasks' = [tasks EXCEPT ![i].tunnel_loop = "exited"]
    /\ UNCHANGED <<collVars, before, target_hosts, spawn_idx, call_pc, call_result, tunVars, pushVars, builderVars>>

Spawned(ts) == {i \in DOMAIN ts : ts[i].pc # "none"}
Failed(ts) == {i \in Spawned(ts) : ts[i].res # "Ok"}
Min(S) == CHOOSE x \in S : \A y \in S : x <= y

\* `for join_res in join_reses { join_res??; } Ok(())`: the first `?` turns a
\* JoinError into PgBouncerError::Join, the second returns the task's error
join_results_ignoring_join_errors(ts) ==
    LET bad == {i \in Failed(ts) : ts[i].res # "Join"}
    IN  IF bad = {} THEN OkResult
        ELSE [ok |-> FALSE, err |-> ts[Min(bad)].res, from |-> Min(bad)]
join_results_first_to_fail(ts) ==
    IF Failed(ts) = {} THEN OkResult
    ELSE LET f == CHOOSE i \in Failed(ts) : ts[i].first_failure
         IN  [ok |-> FALSE, err |-> ts[f].res, from |-> f]
join_results(ts) ==
    IF Failed(ts) = {} THEN OkResult
    ELSE [ok |-> FALSE, err |-> ts[Min(Failed(ts))].res, from |-> Min(Failed(ts))]

\* join_all(temp_db_joins).await completes when every spawned task has; the
\* clones are dropped and self.databases is what it was (&self)
JoinAllFailFast ==
    /\ call_pc = "spawn"
    /\ spawn_idx > Len(databases)
    /\ \/ \A i \in DOMAIN tasks : ~Running(tasks[i])
       \/ \E i \in DOMAIN tasks : tasks[i].pc = "finished" /\ tasks[i].res # "Ok"
    /\ call_result' = join_results([i \in DOMAIN tasks |->
                            IF Running(tasks[i]) THEN NoTask ELSE tasks[i]])
    /\ call_pc' = "returned"
    /\ UNCHANGED <<collVars, before, target_hosts, spawn_idx, tasks, tunVars, pushVars, builderVars>>
JoinAll ==
    /\ call_pc = "spawn"
    /\ spawn_idx > Len(databases)
    /\ \A i \in DOMAIN tasks : ~Running(tasks[i])
    /\ call_result' = join_results(tasks)
    /\ call_pc' = "returned"
    /\ UNCHANGED <<collVars, before, target_hosts, spawn_idx, tasks, tunVars, pushVars, builderVars>>

MaxTasks == 2

InitDisc ==
    /\ route = NoDatabase
    /\ databases \in UNION {[1..n -> DiscRoutes] : n \in 1..MaxTasks}
    /\ before = databases
    /\ target_hosts \in {None, Some({}), Some({"h1"})}
    /\ spawn_idx = 1
    /\ tasks = [i \in DOMAIN databases |-> NoTask]
    /\ call_pc = "spawn"
    /\ call_result = NoResult
    /\ TunIdle
    /\ PushIdle
    /\ BuilderIdle

NextDisc ==
    \/ SkipRoute
    \/ SpawnTask
    \/ \E i \in DOMAIN tasks : TaskOpenTunnel(i)
    \/ \E i \in DOMAIN tasks : TaskConnect(i)
    \/ \E i \in DOMAIN tasks : TaskQuery(i)
    \/ \E i \in DOMAIN tasks : TaskPush(i)
    \/ \E i \in DOMAIN tasks : TaskReturn(i)
    \/ \E i \in DOMAIN tasks : TaskPanic(i)
    \/ \E i \in DOMAIN tasks : TaskTunnelLoopExit(i)
    \/ JoinAll

SpecDisc == InitDisc /\ [][NextDisc]_vars

\* The accept loop of a tunnel is a spawned tokio task that the runtime keeps
\* polling: once its shutdown branch is ready it is taken.
\* It is followed for the calls that name the tunnelled entry's host in their
\* filter (what a task does does not depend on the filter).
InitDiscFiltered == InitDisc /\ target_hosts = Some({"h1"})

FairSpecDisc ==
    /\ InitDiscFiltered
    /\ [][NextDisc]_vars
    /\ \A i \in 1..MaxTasks : WF_vars(TaskTunnelLoopExit(i))

\* the sorted, deduplicated union of entry i's previous names and the names
\* its own task's backend returned
HoldsMergedNames(i) ==
    /\ IsSorted(databases[i].databases)
    /\ NoDuplicates(databases[i].databases)
    /\ Range(databases[i].databases) =
          Range(before[i].databases) \cup Range(tasks[i].db_names)

\* C1: when the call runs over N entries and all N discovery tasks succeed,
\* it returns Ok and every entry of the collection holds the sorted,
\* deduplicated union of its previous names and its own backend's names.
C1_DiscoverMergesOwnNames ==
    (/\ call_pc = "returned"
     /\ \A i \in DOMAIN tasks : tasks[i].pc = "finished" /\ tasks[i].res = "Ok")
    => (/\ call_result.ok
        /\ \A i \in DOMAIN databases : HoldsMergedNames(i))

\* C2: when exactly one of the N tasks fails and the other N-1 succeed, the
\* call returns an error and the entries whose tasks succeeded hold their
\* merged lists in the collection.
C2_PartialSuccessRetained ==
    (/\ call_pc = "returned"
     /\ Spawned(tasks) = DOMAIN tasks
     /\ Cardinality(Failed(tasks)) = 1)
    => (/\ ~call_result.ok
        /\ \A i \in Spawned(tasks) \ Failed(tasks) : HoldsMergedNames(i))

\* C3: the call returns Ok if and only if every spawned task joined normally
\* and returned Ok.
C3_OkIffAllTasksOk ==
    call_pc = "returned"
    => (call_result.ok <=> \A i \in Spawned(tasks) : tasks[i].res = "Ok")

C3_Witness ==
    /\ call_pc = "returned"
    /\ ~call_result.ok
    /\ \E i \in Spawned(tasks) : tasks[i].res = "Join"
    /\ \E i \in Spawned(tasks) : tasks[i].res = "Ok"
    /\ \A i \in Spawned(tasks) : tasks[i].res \in {"Ok", "Join"}

\* C4: with a non-empty host filter, an entry whose host is not in the filter
\* gets no discovery task and is the same before and after the call,
\* whatever happens to the other entries' tasks.
C4_FilteredRoutesUntouched ==
    \A i \in DOMAIN databases :
        (/\ target_hosts.some
         /\ target_hosts.v # {}
         /\ databases[i].host \notin target_hosts.v)
        => (tasks[i] = NoTask /\ databases[i] = before[i])

C4_Witness ==
    /\ call_pc = "returned"
    /\ target_hosts.some
    /\ target_hosts.v # {}
    /\ \E i \in DOMAIN databases : databases[i].host \notin target_hosts.v
    /\ \E j \in Spawned(tasks) : tasks[j].res # "Ok"

(***************************************************************************)
(* SSHTunnel::run, the accept loop it spawns, handle_connection, and        *)
(* SSHTunnelHandler::shutdown                                               *)
(*                                                                         *)
(* The bastion, the operating system's sockets and the local clients are    *)
(* the environment. A forwarded channel is a stream multiplexed inside the  *)
(* SSH session: once the session is disconnected no channel of it carries   *)
(* data any more.                                                           *)
(***************************************************************************)
MaxConns == 2
ConnIds == 1..MaxConns

\* enum SSHAuth
SSHAuth == {"Password", "SSHKey", "LocalSSHKeyFile"}

TunnelBuilders ==
    LET base == {SSHTunnelBuilder_new("bastion", "ubuntu", a, "db.internal") : a \in SSHAuth}
    IN  base \cup {set_local_port(b, 15432) : b \in base}

\* a local client connection: its state, how it ended, the client's own
\* (peer) address and port, the state of the shutdown signal when it was
\* accepted, the channel-open request made for it and the number of
\* forwarded channels opened for it
NoConn ==
    [st |-> "idle", end |-> "none",
     peer_addr |-> "none", peer_port |-> 0,
     accepted_with |-> "none",
     request |-> None, requested_with |-> "none", channels |-> 0]

\* the port the OS gives the client end of local connection c
PeerPort(c) == 50000 + c

\* SSHTunnelBuilder::default and Database::enable_ssh_tunneling
SSHTunnelBuilder_default ==
    [host |-> "ssh.tunnel.server", port |-> None, user |-> "ubuntu",
     auth |-> "LocalSSHKeyFile", local_port |-> None,
     remote_host |-> "postgres.database.db", remote_port |-> None]
enable_ssh_tunneling(db) == [db EXCEPT !.ssh_tunneling = Some(SSHTunnelBuilder_default)]

\* the entries whose discovery opens a tunnel: get_databases_from_host runs
\* SSHTunnel::from(self.ssh_tunneling) for them
TunnelRoutes ==
    {set_ssh_tunnel(Database_new("db.internal", 5432, "postgres", "w1", <<>>), b) :
        b \in TunnelBuilders}
    \cup {set_ssh_tunnel(Database_new("h1", 5432, "postgres", "w1", <<>>),
                         SSHTunnelBuilder_new("bastion", "ubuntu", "Password", "db.internal")),
          enable_ssh_tunneling(Database_new("h1", 5432, "postgres", "w1", <<>>))}

\* run() returns Err(e): the session handle and the listener it owns, if
\* any, are dropped
RunFail(e) ==
    /\ run_pc' = "returned"
    /\ run_result' = e
    /\ session' = IF session = "none" THEN "none" ELSE "closed"

\* client::connect(config, (bastion_host, bastion_port), handler).await?
RunConnect ==
    /\ run_pc = "connect"
    /\ \/ /\ session' = "connected"
          /\ run_pc' = "authenticate"
          /\ UNCHANGED run_result
       \/ RunFail("SshConnection")
    /\ UNCHANGED <<collVars, discVars, pushVars, builderVars, tunnel, auth_success, listener, local_addr,
                   shutdown_tx, loop_pc, loop_result, conns>>

\* match self.bastion_auth(): decode/load the key (SSHKey, LocalSSHKeyFile),
\* then authenticate_password / authenticate_publickey(..).await?
RunAuthenticate ==
    /\ run_pc = "authenticate"
    /\ \/ /\ tunnel.bastion_auth \in {"SSHKey", "LocalSSHKeyFile"}
          /\ RunFail("SshKey")
          /\ UNCHANGED auth_success
       \/ /\ RunFail("SshConnection")
          /\ UNCHANGED auth_success
       \/ /\ \E ok \in {"success", "failure"} : auth_success' = ok
          /\ run_pc' = "check_auth"
          /\ UNCHANGED <<run_result, session>>
    /\ UNCHANGED <<collVars, discVars, pushVars, builderVars, tunnel, listener, local_addr,
                   shutdown_tx, loop_pc, loop_result, conns>>

\* if !auth_success.success() { return Err(PgBouncerError::Connection(..)) }
RunCheckAuthIgnored ==
    /\ run_pc = "check_auth"
    /\ run_pc' = "bind"
    /\ session' = "authenticated"
    /\ UNCHANGED run_result
    /\ UNCHANGED <<collVars, discVars, pushVars, builderVars, tunnel, auth_success, listener, local_addr,
                   shutdown_tx, loop_pc, loop_result, conns>>
RunCheckAuth ==
    /\ run_pc = "check_auth"
    /\ IF auth_success # "success"
       THEN RunFail("Connection")
       ELSE /\ run_pc' = "bind"
            /\ session' = "authenticated"
            /\ UNCHANGED run_result
    /\ UNCHANGED <<collVars, discVars, pushVars, builderVars, tunnel, auth_success, listener, local_addr,
                   shutdown_tx, loop_pc, loop_result, conns>>

\* TcpListener::bind(("127.0.0.1", self.local_port)).await?;
\* listener.local_addr()?
RunBind ==
    /\ run_pc = "bind"
    /\ \/ /\ listener' = "bound"
          /\ local_addr' = BoundPort(tunnel.local_port)
          /\ run_pc' = "spawn"
          /\ UNCHANGED <<run_result, session>>
       \/ /\ RunFail("Io")                       \* bind fails
          /\ UNCHANGED <<listener, local_addr>>
       \/ /\ RunFail("Io")                       \* local_addr() fails
          /\ listener' = "closed"
          /\ UNCHANGED local_addr
    /\ UNCHANGED <<collVars, discVars, pushVars, builderVars, tunnel, auth_success,
                   shutdown_tx, loop_pc, loop_result, conns>>

\* tokio::spawn(async move { loop { .. } .. });
\* Ok(SSHTunnelHandler { shutdown_tx, local_addr })
RunSpawnWithoutLoop ==
    /\ run_pc = "spawn"
    /\ shutdown_tx' = "alive"
    /\ run_pc' = "returned"
    /\ run_result' = "Ok"
    /\ UNCHANGED <<collVars, discVars, pushVars, builderVars, tunnel, session,
                   auth_success, listener, local_addr, loop_pc, loop_result, conns>>
RunSpawn ==
    /\ run_pc = "spawn"
    /\ loop_pc' = "select"
    /\ shutdown_tx' = "alive"
    /\ run_pc' = "returned"
    /\ run_result' = "Ok"
    /\ UNCHANGED <<collVars, discVars, pushVars, builderVars, tunnel, session, auth_success, listener,
                   local_addr, loop_result, conns>>

\* a local client connects to the address the listener was bound to: the
\* connection is queued while the socket is open and refused once it is closed
ClientConnect(c) ==
    /\ conns[c].st = "idle"
    /\ listener # "none"
    /\ conns' = [conns EXCEPT ![c].st = IF listener = "bound" THEN "pending"
                                        ELSE "refused",
                              ![c].peer_addr = "127.0.0.1",
                              ![c].peer_port = PeerPort(c)]
    /\ UNCHANGED <<collVars, discVars, pushVars, builderVars, tunnel, run_pc, run_result, session,
                   auth_success, listener, local_addr, shutdown_tx, loop_pc,
                   loop_result>>

\* select! branch `accepted = listener.accept()`, Ok((socket, addr)):
\* tokio::spawn(handle_connection(..)) and loop again
LoopAcceptInline(c) ==
    /\ loop_pc = "select"
    /\ conns[c].st = "pending"
    /\ \A d \in ConnIds : conns[d].st \notin {"opening", "relaying"}
    /\ conns' = [conns EXCEPT ![c].st = "opening",
                              ![c].accepted_with = shutdown_tx]
    /\ UNCHANGED <<collVars, discVars, pushVars, builderVars, tunnel, run_pc, run_result, session,
                   auth_success, listener, local_addr, shutdown_tx, loop_pc,
                   loop_result>>
LoopAccept(c) ==
    /\ loop_pc = "select"
    /\ conns[c].st = "pending"
    /\ conns' = [conns EXCEPT ![c].st = "opening",
                              ![c].accepted_with = shutdown_tx]
    /\ UNCHANGED <<collVars, discVars, pushVars, builderVars, tunnel, run_pc, run_result, session,
                   auth_success, listener, local_addr, shutdown_tx, loop_pc,
                   loop_result>>

\* select! branch `accepted = listener.accept()`, Err(e): the attempt of a
\* queued client is lost (e.g. it aborted before accept returned);
\* log::error!(..) and loop again
LoopAcceptErrorBreaks(c) ==
    /\ loop_pc = "select"
    /\ conns[c].st = "pending"
    /\ conns' = [conns EXCEPT ![c] = [@ EXCEPT !.st = "failed", !.end = "accept"]]
    /\ loop_pc' = "disconnect"
    /\ UNCHANGED <<collVars, discVars, pushVars, builderVars, tunnel, run_pc,
                   run_result, session, auth_success, listener, local_addr,
                   shutdown_tx, loop_result>>
LoopAcceptError(c) ==
    /\ loop_pc = "select"
    /\ conns[c].st = "pending"
    /\ conns' = [conns EXCEPT ![c] = [@ EXCEPT !.st = "failed", !.end = "accept"]]
    /\ UNCHANGED loop_pc
    /\ UNCHANGED <<collVars, discVars, pushVars, builderVars, tunnel, run_pc,
                   run_result, session, auth_success, listener, local_addr,
                   shutdown_tx, loop_result>>

\* handle_connection: channel_open_direct_tcpip(pg_host, pg_port, "127.0.0.1",
\* local_socket.local_addr()?.port()): the accepted socket's local address is
\* the address the listener is bound to
channel_open_direct_tcpip(c) ==
    [host |-> tunnel.pg_host, port |-> tunnel.pg_port,
     originator_address |-> "127.0.0.1", originator_port |-> local_addr]

\* handle_connection: session_handle.channel_open_direct_tcpip(..).await
HandleOpenChannel(c) ==
    /\ conns[c].st = "opening"
    /\ LET asked == [conns[c] EXCEPT !.request = Some(channel_open_direct_tcpip(c)),
                                     !.requested_with = shutdown_tx]
       IN  \/ /\ session = "authenticated"
              /\ conns' = [conns EXCEPT ![c] = [asked EXCEPT !.st = "relaying",
                                                             !.channels = @ + 1]]
           \/ conns' = [conns EXCEPT ![c] = [asked EXCEPT !.st = "failed",
                                                          !.end = "channel_open"]]
    /\ UNCHANGED <<collVars, discVars, pushVars, builderVars, tunnel, run_pc, run_result, session,
                   auth_success, listener, local_addr, shutdown_tx, loop_pc,
                   loop_result>>

\* handle_connection: copy_bidirectional(local_socket, channel_stream)
\* returns: Ok at EOF, Err on an I/O error; a relay whose session was
\* disconnected finds its channel gone
RelayEnd(c) ==
    /\ \/ /\ conns[c].st = "relaying"
          /\ \/ conns' = [conns EXCEPT ![c] = [@ EXCEPT !.st = "closed", !.end = "eof"]]
             \/ conns' = [conns EXCEPT ![c] = [@ EXCEPT !.st = "failed", !.end = "io_error"]]
       \/ /\ conns[c].st = "severed"
          /\ \E st \in {"closed", "failed"} :
                conns' = [conns EXCEPT ![c] = [@ EXCEPT !.st = st, !.end = "session_closed"]]
    /\ UNCHANGED <<collVars, discVars, pushVars, builderVars, tunnel, run_pc, run_result, session,
                   auth_success, listener, local_addr, shutdown_tx, loop_pc,
                   loop_result>>

\* SSHTunnelHandler::shutdown(self): drop(self.shutdown_tx)
Shutdown ==
    /\ run_pc = "returned"
    /\ shutdown_tx = "alive"
    /\ shutdown_tx' = "dropped"
    /\ UNCHANGED <<collVars, discVars, pushVars, builderVars, tunnel, run_pc, run_result, session,
                   auth_success, listener, local_addr, loop_pc, loop_result, conns>>

\* select! branch `_ = shutdown_rx.changed()`: resolves (with Err) once the
\* sender is dropped; break
LoopShutdownStays ==
    /\ loop_pc = "select"
    /\ shutdown_tx = "dropped"
    /\ UNCHANGED vars
LoopShutdownClosesListener ==
    /\ loop_pc = "select"
    /\ shutdown_tx = "dropped"
    /\ loop_pc' = "disconnect"
    /\ listener' = "closed"
    /\ UNCHANGED <<collVars, discVars, pushVars, builderVars, tunnel, run_pc, run_result, session,
                   auth_success, local_addr, shutdown_tx, loop_result, conns>>
LoopShutdown ==
    /\ loop_pc = "select"
    /\ shutdown_tx = "dropped"
    /\ loop_pc' = "disconnect"
    /\ UNCHANGED <<collVars, discVars, pushVars, builderVars, tunnel, run_pc, run_result, session,
                   auth_success, listener, local_addr, shutdown_tx, loop_result,
                   conns>>

\* session_arc.disconnect(ByApplication, "Shutdown", "en").await, and the
\* task's result; the channels of the session end with it
LoopDisconnect ==
    /\ loop_pc = "disconnect"
    /\ session' = "disconnected"
    /\ conns' = [c \in DOMAIN conns |->
                    IF conns[c].st = "relaying"
                    THEN [conns[c] EXCEPT !.st = "severed"] ELSE conns[c]]
    /\ \E r \in {"Ok", "Connection"} : loop_result' = r
    /\ loop_pc' = "return"
    /\ UNCHANGED <<collVars, discVars, pushVars, builderVars, tunnel, run_pc, run_result, auth_success,
                   listener, local_addr, shutdown_tx>>

\* the accept-loop task completes: what its future owns (the listener) is
\* dropped, and connections still queued on the socket are reset
LoopReturn ==
    /\ loop_pc = "return"
    /\ loop_pc' = "exited"
    /\ listener' = "closed"
    /\ conns' = [c \in DOMAIN conns |->
                    IF conns[c].st = "pending"
                    THEN [conns[c] EXCEPT !.st = "reset"] ELSE conns[c]]
    /\ UNCHANGED <<collVars, discVars, pushVars, builderVars, tunnel, run_pc, run_result, session,
                   auth_success, local_addr, shutdown_tx, loop_result>>

InitTunnel ==
    /\ route \in TunnelRoutes
    /\ databases = <<>>
    /\ DiscIdle
    /\ tunnel = SSHTunnel_from(route.ssh_tunneling.v)
    /\ run_pc = "connect"
    /\ run_result = "none"
    /\ session = "none"
    /\ auth_success = "none"
    /\ listener = "none"
    /\ local_addr = 0
    /\ shutdown_tx = "none"
    /\ loop_pc = "none"
    /\ loop_result = "none"
    /\ conns = [c \in ConnIds |-> NoConn]
    /\ PushIdle
    /\ BuilderIdle

NextTunnel ==
    \/ RunConnect
    \/ RunAuthenticate
    \/ RunCheckAuth
    \/ RunBind
    \/ RunSpawn
    \/ \E c \in ConnIds : ClientConnect(c)
    \/ \E c \in ConnIds : LoopAccept(c)
    \/ \E c \in ConnIds : LoopAcceptError(c)
    \/ \E c \in ConnIds : HandleOpenChannel(c)
    \/ \E c \in ConnIds : RelayEnd(c)
    \/ Shutdown
    \/ LoopShutdown
    \/ LoopDisconnect
    \/ LoopReturn

SpecTunnel == InitTunnel /\ [][NextTunnel]_vars

\* The accept loop is a spawned tokio task: the runtime keeps polling it, and
\* select! takes a ready branch, so a loop that can observe the shutdown,
\* disconnect or return eventually does.
FairSpecTunnel ==
    /\ SpecTunnel
    /\ WF_vars(LoopShutdown)
    /\ WF_vars(LoopDisconnect)
    /\ WF_vars(LoopReturn)

\* select! polls listener.accept() every time round the loop, so a connection
\* queued on the listener is eventually taken by the accept branch (or the
\* loop leaves through the shutdown branch).
FairSpecAccept ==
    /\ FairSpecTunnel
    /\ WF_vars(\E c \in ConnIds : LoopAccept(c) \/ LoopAcceptError(c))

(***************************************************************************)
(* DatabasesSetting::add_database of values that carry an ignore list, a   *)
(* tunnel or the credential-output flag                                    *)
(***************************************************************************)
\* Database::add_ignore_database: push, sort, dedup
add_ignore_database(db, name) ==
    [db EXCEPT !.ignore_databases = Dedup(Sort(Append(@, name)))]

\* Database::set_is_output_credentials_to_config
set_is_output_credentials_to_config(db, flag) ==
    [db EXCEPT !.is_output_credentials_to_config = flag]

\* the values added: plain, with an ignored name and the flag raised, and
\* with the default tunnel
MergeRoutes ==
    LET plain == {Database_new("h1", 5432, "postgres", w, names) :
                    w \in Passwords, names \in {<<1>>, <<2>>}}
    IN  plain
        \cup {set_is_output_credentials_to_config(add_ignore_database(d, MaxName), TRUE) :
                d \in plain}
        \cup {enable_ssh_tunneling(d) : d \in plain}

\* the collections the calls start from: an empty one, and a deserialized one
\* that holds two entries for one (host, port, user, password)
LoadedSettings ==
    {<<>>,
     <<Database_new("h1", 5432, "postgres", "w1", <<1>>),
       enable_ssh_tunneling(
           add_ignore_database(Database_new("h1", 5432, "postgres", "w1", <<2>>), MaxName))>>}

\* settings.add_database(database)
AddDatabaseWithOptions ==
    /\ Len(databases) < MaxRoutes
    /\ \E database \in MergeRoutes :
          /\ route' = database
          /\ databases' = add_database(databases, database)
    /\ UNCHANGED <<discVars, tunVars, pushVars, builderVars>>

InitMerge ==
    /\ route = NoDatabase
    /\ databases \in LoadedSettings
    /\ DiscIdle
    /\ TunIdle
    /\ PushIdle
    /\ BuilderIdle

NextMerge == AddDatabaseWithOptions

SpecMerge == InitMerge /\ [][NextMerge]_vars

(***************************************************************************)
(* PgBouncerConfig and PgBouncerConfigBuilder                              *)
(*                                                                         *)
(* A section is a value of a type implementing Expression; only its type   *)
(* (which fixes its section name) and an identity of its content matter.   *)
(* PgBouncerConfig.settings is a BTreeMap<String, Box<dyn Expression>>,    *)
(* modelled as the set of its (key, value) entries.                        *)
(***************************************************************************)
PgBouncerSettings == {[type |-> "PgBouncerSetting", v |-> x] : x \in {"default", "tuned"}}
DatabasesSettings == {[type |-> "DatabasesSetting", v |-> x] : x \in {"empty", "one_route"}}
Dummies == {[type |-> "Dummy", v |-> "dummy"]}
Expressions == PgBouncerSettings \cup DatabasesSettings \cup Dummies
NoSection == [type |-> "none", v |-> "none"]

\* Expression::section_name: the kebab-cased type name unless overridden
section_name(config) ==
    CASE config.type = "PgBouncerSetting" -> "pg-bouncer-setting"
      [] config.type = "DatabasesSetting" -> "databases"
      [] config.type = "Dummy" -> "dummy"

\* BTreeMap::contains_key, BTreeMap::insert, and `map[key] = value` through
\* IndexMut (get_mut(index).expect(..))
contains_key(settings, key) == \E e \in settings : e.key = key
insert(settings, key, value) ==
    {e \in settings : e.key # key} \cup {[key |-> key, value |-> value]}
Keys(settings) == {e.key : e \in settings}

\* PgBouncerConfig::add_config
PgBouncerConfig_add_config_overwriting(settings, config) ==
    [ok |-> TRUE, settings |-> insert(settings, section_name(config), config)]
PgBouncerConfig_add_config(settings, config) ==
    IF contains_key(settings, section_name(config))
    THEN [ok |-> FALSE, settings |-> settings]
    ELSE [ok |-> TRUE, settings |-> insert(settings, section_name(config), config)]

\* PgBouncerConfigBuilder::builder
PgBouncerConfigBuilder_builder ==
    [config |-> {}, pgbouncer_setting |-> FALSE, databases_setting |-> FALSE]

\* PgBouncerConfigBuilder::new; the result of a builder method is the kind of
\* its outcome ("Ok", "Err", or "panic") and the builder it leaves
PgBouncerConfigBuilder_new(pgbouncer_setting, databases_setting) ==
    LET r1 == PgBouncerConfig_add_config({}, pgbouncer_setting)
        r2 == PgBouncerConfig_add_config(r1.settings, databases_setting)
    IN  IF r1.ok /\ r2.ok
        THEN [res |-> "Ok",
              builder |-> [config |-> r2.settings, pgbouncer_setting |-> TRUE,
                           databases_setting |-> TRUE]]
        ELSE [res |-> "Err", builder |-> NoBuilder]

\* PgBouncerConfigBuilder::add_config
Builder_add_config(b, config) ==
    LET r == PgBouncerConfig_add_config(b.config, config)
    IN  [res |-> IF r.ok THEN "Ok" ELSE "Err",
         builder |-> [b EXCEPT !.config = r.settings]]

\* PgBouncerConfigBuilder::set_pgbouncer_setting: the flag is set before
\* add_config is tried
set_pgbouncer_setting(b, pgbouncer_setting) ==
    IF b.pgbouncer_setting THEN [res |-> "Err", builder |-> b]
    ELSE Builder_add_config([b EXCEPT !.pgbouncer_setting = TRUE], pgbouncer_setting)

\* PgBouncerConfigBuilder::set_databases_setting
set_databases_setting(b, databases_setting) ==
    IF b.databases_setting THEN [res |-> "Err", builder |-> b]
    ELSE Builder_add_config([b EXCEPT !.databases_setting = TRUE], databases_setting)

\* self.config[&section_name] = Box::new(value)
index_assign(b, value) ==
    IF contains_key(b.config, section_name(value))
    THEN [res |-> "Ok",
          builder |-> [b EXCEPT !.config = insert(@, section_name(value), value)]]
    ELSE [res |-> "panic", builder |-> b]

\* PgBouncerConfigBuilder::replace_pgbouncer_setting
replace_pgbouncer_setting(b, pgbouncer_setting) ==
    IF ~b.pgbouncer_setting THEN [res |-> "Err", builder |-> b]
    ELSE index_assign(b, pgbouncer_setting)

\* PgBouncerConfigBuilder::replace_databases_setting
replace_databases_setting_unguarded(b, databases_setting) ==
    index_assign(b, databases_setting)
replace_databases_setting(b, databases_setting) ==
    IF ~b.databases_setting THEN [res |-> "Err", builder |-> b]
    ELSE index_assign(b, databases_setting)

Called(op, arg, r) ==
    /\ builder' = r.builder
    /\ call' = [op |-> op, arg |-> arg, res |-> r.res, pre |-> builder]
    /\ UNCHANGED <<built, collVars, discVars, tunVars, pushVars>>

BuilderNew ==
    /\ builder = NoBuilder
    /\ \E p \in PgBouncerSettings, d \in DatabasesSettings :
          Called("new", p, PgBouncerConfigBuilder_new(p, d))

BuilderBuilder ==
    /\ builder = NoBuilder
    /\ Called("builder", NoSection, [res |-> "Ok", builder |-> PgBouncerConfigBuilder_builder])

SetPgbouncerSetting ==
    /\ builder # NoBuilder
    /\ \E p \in PgBouncerSettings :
          Called("set_pgbouncer_setting", p, set_pgbouncer_setting(builder, p))

SetDatabasesSetting ==
    /\ builder # NoBuilder
    /\ \E d \in DatabasesSettings :
          Called("set_databases_setting", d, set_databases_setting(builder, d))

ReplacePgbouncerSetting ==
    /\ builder # NoBuilder
    /\ \E p \in PgBouncerSettings :
          Called("replace_pgbouncer_setting", p, replace_pgbouncer_setting(builder, p))

ReplaceDatabasesSetting ==
    /\ builder # NoBuilder
    /\ \E d \in DatabasesSettings :
          Called("replace_databases_setting", d, replace_databases_setting(builder, d))

AddConfig ==
    /\ builder # NoBuilder
    /\ \E c \in Expressions : Called("add_config", c, Builder_add_config(builder, c))

\* PgBouncerConfigBuilder::build: self.config.clone()
Build ==
    /\ builder # NoBuilder
    /\ built' = Some(builder.config)
    /\ UNCHANGED <<builder, call, collVars, discVars, tunVars, pushVars>>

InitBuilder ==
    /\ route = NoDatabase
    /\ databases = <<>>
    /\ DiscIdle
    /\ TunIdle
    /\ PushIdle
    /\ BuilderIdle

NextBuilder ==
    \/ BuilderNew
    \/ BuilderBuilder
    \/ SetPgbouncerSetting
    \/ SetDatabasesSetting
    \/ ReplacePgbouncerSetting
    \/ ReplaceDatabasesSetting
    \/ AddConfig
    \/ Build

SpecBuilder == InitBuilder /\ [][NextBuilder]_vars

\* C7: when the bastion explicitly rejects the credential, run() returns the
\* authentication error kind (PgBouncerError::SshAuth), never the generic
\* connection error kind (PgBouncerError::Connection).
C7_RejectionIsAuthenticationError ==
    (run_pc = "returned" /\ auth_success = "failure")
    => (run_result = "SshAuth" /\ run_result # "Connection")

\* C8: after shutdown() on a running tunnel, eventually the accept loop has
\* exited, the session disconnect has been issued and the listening socket is
\* closed; once it is closed no connection attempt is queued on it any more.
C8_ShutdownStopsTunnel ==
    /\ (shutdown_tx = "dropped")
         ~> (loop_pc = "exited" /\ session = "disconnected" /\ listener = "closed")
    /\ [](listener = "closed" => \A c \in DOMAIN conns : conns[c].st # "pending")

C8_Witness ==
    /\ shutdown_tx = "dropped"
    /\ loop_pc = "exited"
    /\ session = "disconnected"
    /\ listener = "closed"
    /\ \E c \in DOMAIN conns : conns[c].st = "refused"

\* C9: a connection being relayed when the tunnel is shut down is not ended
\* by the shutdown: neither the loop's exit nor the session disconnect cuts
\* its relay.
C9_RelaysSurviveShutdown ==
    \A c \in DOMAIN conns :
        /\ conns[c].st # "severed"
        /\ conns[c].end # "session_closed"

\* C10: a tunnel that was started owns one listening socket, which stays
\* bound as long as the accept loop runs and is released only once the loop
\* has exited and the session disconnect has completed.
C10_ListenerHeldUntilLoopExit ==
    /\ run_result = "Ok" => listener # "none" /\ local_addr # 0
    /\ loop_pc \in {"select", "disconnect", "return"} => listener = "bound"
    /\ (run_result = "Ok" /\ listener = "closed")
          => (loop_pc = "exited" /\ session = "disconnected")

C10_Witness ==
    /\ run_result = "Ok"
    /\ loop_pc = "exited"
    /\ listener = "closed"
    /\ \E c \in DOMAIN conns : conns[c].st = "reset"

\* C11: a failed channel open, a relay I/O error or an error of accept itself
\* never ends the accept loop and never becomes the result of run() or of the
\* loop: while no shutdown was signalled the loop is at its select! with the
\* listener bound, and a connection queued after such a failure is still
\* taken by the loop (unless shutdown is signalled first).
C11_ConnectionFailuresStayLocal ==
    /\ [](shutdown_tx = "alive"
            => /\ loop_pc = "select"
               /\ listener = "bound"
               /\ run_result = "Ok"
               /\ loop_result = "none")
    /\ \A c \in ConnIds :
          (/\ conns[c].st = "pending"
           /\ \E d \in ConnIds : conns[d].st = "failed")
             ~> (conns[c].st \notin {"pending", "reset"} \/ shutdown_tx = "dropped")

C11_Witness ==
    /\ shutdown_tx = "alive"
    /\ \E c, d \in ConnIds :
          /\ conns[c].st = "failed" /\ conns[c].end = "accept"
          /\ conns[d].st = "relaying"

\* task i has ended after SSHTunnel::run gave it a handle
EndedWithTunnel(i) ==
    IF i \in DOMAIN tasks /\ tasks[i].pc = "finished"
    THEN tasks[i].tunnel_loop # "none"
    ELSE FALSE

TunnelLoopExited(i) ==
    IF i \in DOMAIN tasks /\ tasks[i].pc # "none"
    THEN tasks[i].tunnel_loop = "exited"
    ELSE FALSE

\* C12: on every exit path of get_databases_from_host after the tunnel was
\* opened, the tunnel's shutdown signal is delivered (the handle's sender is
\* gone when the task has finished) and the tunnel's accept loop eventually
\* exits.
C12_TunnelTornDownWithTask ==
    /\ [](\A i \in DOMAIN tasks :
            EndedWithTunnel(i) => tasks[i].ssh_session \in {"shutdown", "dropped"})
    /\ \A i \in 1..MaxTasks :
          EndedWithTunnel(i) ~> TunnelLoopExited(i)

C12_Witness ==
    /\ \E i \in DOMAIN tasks :
          /\ tasks[i].pc = "finished"
          /\ tasks[i].res = "Sqlx"
          /\ tasks[i].query_attempts = 1
          /\ tasks[i].ssh_session = "dropped"
          /\ tasks[i].tunnel_loop = "exited"
    /\ \E i \in DOMAIN tasks :
          /\ tasks[i].pc = "finished"
          /\ tasks[i].res = "Ok"
          /\ tasks[i].ssh_session = "shutdown"
          /\ tasks[i].tunnel_loop = "exited"

\* C13: for any current list and any pushed slice, push_databases leaves
\* `databases` equal to the set union of the old names and the pushed names,
\* in ascending order, each name exactly once (and touches nothing else).
C13_PushIsSortedUnion ==
    old_route # NoDatabase
    => /\ Range(route.databases) = Range(old_route.databases) \cup Range(names_arg)
       /\ IsSorted(route.databases)
       /\ NoDuplicates(route.databases)
       /\ route = [old_route EXCEPT !.databases = route.databases]

C13_Witness ==
    /\ old_route # NoDatabase
    /\ old_route.databases = <<2, 1, 2>>
    /\ names_arg = <<3, 1>>
    /\ route.databases = <<1, 2, 3>>

\* C14: when target_hosts is None or an empty list, every entry the spawn
\* loop has passed has its discovery task, so that the call returns with one
\* task spawned for every entry of the collection.
C14_NoFilterSpawnsAll ==
    HostsOf(target_hosts) = {}
    => /\ \A i \in DOMAIN databases : i < spawn_idx => tasks[i].pc # "none"
       /\ call_pc = "returned" => Spawned(tasks) = DOMAIN databases

C14_Witness ==
    /\ call_pc = "returned"
    /\ target_hosts = Some({})
    /\ Len(databases) > 1
    /\ Spawned(tasks) = DOMAIN databases
    /\ \E i, j \in DOMAIN databases : databases[i].host # databases[j].host

\* C15: whenever run() has returned a handle, the listener was bound at the
\* address the handle reports (the preferred port, or the OS-assigned one when
\* the preference is unset or 0) and the accept loop was started; until
\* shutdown is signalled the listener stays bound with the loop at its
\* select!, and a connection made to that address is taken by the loop's
\* accept branch unless shutdown is signalled first.
C15_HandleMeansListening ==
    /\ [](run_result = "Ok"
            => /\ listener # "none"
               /\ loop_pc # "none"
               /\ local_addr = IF tunnel.local_port = 0 THEN EphemeralPort
                               ELSE tunnel.local_port)
    /\ []((run_result = "Ok" /\ shutdown_tx = "alive")
            => (listener = "bound" /\ loop_pc = "select"))
    /\ \A c \in ConnIds :
          (run_result = "Ok" /\ conns[c].st = "pending")
             ~> (conns[c].st \notin {"pending", "reset"} \/ shutdown_tx = "dropped")

C15_Witness ==
    /\ run_result = "Ok"
    /\ shutdown_tx = "alive"
    /\ tunnel.local_port = 0
    /\ local_addr = EphemeralPort
    /\ \E c \in ConnIds : conns[c].st = "relaying"

\* C16: a discovery task's database client connects to the tunnel's bound
\* local address if and only if the entry carries a tunnel specification and
\* the tunnel was opened; an entry without one connects to its own host and
\* port; and when opening the tunnel fails the task fails without any
\* database connection attempt.
C16_TargetIsTunnelIffOpened ==
    \A i \in Spawned(tasks) :
        LET t == tasks[i]
            has_spec == t.temp_db.ssh_tunneling.some
            opened == t.tunnel_loop # "none"
        IN  /\ t.target.some
                => ((t.target.v = [host |-> "127.0.0.1", port |-> t.local_addr]
                       /\ t.local_addr # 0)
                    <=> (has_spec /\ opened))
            /\ (t.target.some /\ ~has_spec)
                => t.target.v = [host |-> t.temp_db.host, port |-> t.temp_db.port]
            /\ (has_spec /\ ~opened)
                => (~t.target.some /\ t.connect_attempts = 0)
            /\ (has_spec /\ ~opened /\ t.tunnel_attempts > 0)
                => (t.pc = "finished" /\ t.res \in RunErrors)

C16_Witness ==
    /\ \E i \in Spawned(tasks) :
          /\ tasks[i].res = "Ok"
          /\ tasks[i].target = Some([host |-> "127.0.0.1", port |-> EphemeralPort])
    /\ \E i \in Spawned(tasks) :
          /\ tasks[i].temp_db.ssh_tunneling.some
          /\ tasks[i].res = "SshConnection"
          /\ tasks[i].target = None

\* the steps task i has attempted so far: calls of SSHTunnel::run, of
\* PgClient::new and of PgClient::get_databases made by its
\* get_databases_from_host
Attempts(t) == <<t.tunnel_attempts, t.connect_attempts, t.query_attempts>>

\* C17: no step is retried: each spawned task makes at most one tunnel-open
\* attempt, at most one database connection attempt and at most one
\* discovery query, a task whose step failed has finished, and a finished
\* task attempts nothing more.
C17_NoStepRetried ==
    /\ [](\A i \in Spawned(tasks) :
            /\ tasks[i].tunnel_attempts <= 1
            /\ tasks[i].connect_attempts <= 1
            /\ tasks[i].query_attempts <= 1
            /\ tasks[i].res \notin {"running", "Ok"} => tasks[i].pc = "finished")
    /\ [][\A i \in Spawned(tasks) :
            tasks[i].pc = "finished" => Attempts(tasks'[i]) = Attempts(tasks[i])]_vars

C17_Witness ==
    \E i \in Spawned(tasks) :
        /\ call_pc = "returned"
        /\ tasks[i].res = "Sqlx"
        /\ Attempts(tasks[i]) = <<1, 1, 0>>

\* the `pgbouncer_setting` / `databases_setting` flag a set_* or replace_*
\* call looks at, in builder value b
FlagOfCall(b) ==
    IF call.op \in {"set_pgbouncer_setting", "replace_pgbouncer_setting"}
    THEN b.pgbouncer_setting
    ELSE b.databases_setting

\* the section the last call was given is in the configuration of b
PresentIn(b) == contains_key(b.config, section_name(call.arg))

\* C18: set_pgbouncer_setting / set_databases_setting succeed only when that
\* section has not been set yet, and return an error once it was set by new()
\* or by an earlier set call; replace_pgbouncer_setting /
\* replace_databases_setting succeed only when that section has already been
\* set, and return an error (they do not panic) before it is set; a section
\* once set stays set, whatever builder calls follow.
C18_SetOnceReplaceAfterSet ==
    /\ [](/\ call.op = "new"
              => /\ call.res = "Ok"
                 /\ builder.pgbouncer_setting /\ builder.databases_setting
                 /\ Keys(builder.config) = {"pg-bouncer-setting", "databases"}
          /\ call.op \in {"set_pgbouncer_setting", "set_databases_setting"}
              => /\ call.res \in {"Ok", "Err"}
                 /\ call.res = "Ok"
                      => /\ ~FlagOfCall(call.pre) /\ ~PresentIn(call.pre)
                         /\ FlagOfCall(builder) /\ PresentIn(builder)
                 /\ (FlagOfCall(call.pre) \/ PresentIn(call.pre)) => call.res = "Err"
          /\ call.op \in {"replace_pgbouncer_setting", "replace_databases_setting"}
              => /\ call.res \in {"Ok", "Err"}
                 /\ call.res = "Ok"
                      => /\ FlagOfCall(call.pre) /\ PresentIn(call.pre)
                         /\ [key |-> section_name(call.arg), value |-> call.arg]
                               \in builder.config
                 /\ (~FlagOfCall(call.pre) \/ ~PresentIn(call.pre)) => call.res = "Err")
    /\ [][builder # NoBuilder
            => /\ builder.pgbouncer_setting
                  => (builder'.pgbouncer_setting
                      /\ contains_key(builder'.config, "pg-bouncer-setting"))
               /\ builder.databases_setting
                  => (builder'.databases_setting
                      /\ contains_key(builder'.config, "databases"))]_vars

C18_Witness ==
    /\ call.op = "replace_databases_setting"
    /\ call.res = "Err"
    /\ call.pre.pgbouncer_setting
    /\ ~call.pre.databases_setting
    /\ ~contains_key(call.pre.config, "databases")

\* C19: add_config with a section whose name is already in the configuration
\* returns an error and leaves the configuration unchanged; the builder's
\* configuration and every built PgBouncerConfig hold each section name at
\* most once, and exactly the two seeded sections as long as no other section
\* was added.
C19_SectionNamesUnique ==
    /\ (call.op = "add_config" /\ PresentIn(call.pre))
         => (call.res = "Err" /\ builder = call.pre)
    /\ builder # NoBuilder
         => /\ Cardinality(Keys(builder.config)) = Cardinality(builder.config)
            /\ (/\ builder.pgbouncer_setting
                /\ builder.databases_setting
                /\ "dummy" \notin Keys(builder.config))
                 => Cardinality(builder.config) = 2
    /\ built.some => Cardinality(Keys(built.v)) = Cardinality(built.v)

C19_Witness ==
    /\ call.op = "add_config"
    /\ call.arg.type = "DatabasesSetting"
    /\ call.res = "Err"
    /\ built.some
    /\ built.v = builder.config
    /\ Cardinality(built.v) = 2
    /\ \E e \in built.v : e.value.v = "tuned"

\* C20: the call has not returned, with Ok or with an error, while a
\* discovery task it spawned is still running: when it returns every spawned
\* task has completed, also when another task had failed before.
C20_ReturnsAfterAllTasks ==
    call_pc = "returned"
    => \A i \in Spawned(tasks) : tasks[i].pc = "finished" /\ tasks[i].res # "running"

C20_Witness ==
    /\ call_pc = "returned"
    /\ ~call_result.ok
    /\ call_result.from = 1
    /\ \E i \in Spawned(tasks) :
          /\ i > 1
          /\ tasks[i].res = "Ok"
          /\ tasks[i].query_attempts = 1

\* the step of get_databases_from_host that may follow the step `from` in a
\* task whose entry has (has_spec) or has not a tunnel specification
NextStep(from, has_spec) ==
    CASE from = "spawned" -> IF has_spec THEN "tunnel" ELSE "connected"
      [] from = "tunnel" -> "connected"
      [] from = "connected" -> "queried"
      [] from = "queried" -> "pushed"
      [] OTHER -> "finished"

\* C21: within one task the steps happen strictly in the order open tunnel
\* (if configured), connect, query, merge, shut down tunnel: a task moves only
\* to the next step of that order (or ends), a step is made only after the
\* steps before it were made, and the tunnel is shut down only after the
\* names were merged; the tasks of different entries are not ordered.
C21_StepsInOrder ==
    /\ [][\A i \in Spawned(tasks) :
            tasks'[i].pc # tasks[i].pc
            => tasks'[i].pc \in {"finished",
                                 NextStep(tasks[i].pc, tasks[i].temp_db.ssh_tunneling.some)}]_vars
    /\ [](\A i \in Spawned(tasks) :
            LET t == tasks[i]
            IN  /\ t.connect_attempts > 0
                    => (t.temp_db.ssh_tunneling.some
                        => (t.tunnel_attempts = 1 /\ t.tunnel_loop # "none"))
                /\ t.query_attempts > 0 => (t.connect_attempts = 1 /\ t.target.some)
                /\ t.pc = "pushed" => (t.query_attempts = 1 /\ t.ssh_session # "shutdown")
                /\ t.ssh_session = "shutdown"
                    => /\ t.pc = "finished" /\ t.res = "Ok"
                       /\ Range(t.db_names) \subseteq Range(t.temp_db.databases))

C21_Witness ==
    /\ Len(tasks) > 1
    /\ tasks[1].pc = "tunnel"
    /\ tasks[2].pc = "finished"
    /\ tasks[2].res = "Ok"
    /\ tasks[2].ssh_session = "shutdown"

\* C22: the tunnel opened for the discovery of an entry that carries a tunnel
\* specification forwards to the entry's own host and port: every channel
\* requested through it targets (host, port) of that entry.
C22_TunnelForwardsToRoute ==
    \A c \in DOMAIN conns :
        conns[c].request.some
        => /\ conns[c].request.v.host = route.host
           /\ conns[c].request.v.port = route.port

\* C23: for each accepted local connection exactly one forwarded channel is
\* opened (none when the open fails), and the originator address and port of
\* the channel-open request are those of the local peer that connected.
C23_OriginatorIsPeer ==
    \A c \in DOMAIN conns :
        /\ conns[c].channels <= 1
        /\ conns[c].st \in {"relaying", "severed", "closed"} => conns[c].channels = 1
        /\ conns[c].request.some
            => /\ conns[c].request.v.originator_address = conns[c].peer_addr
               /\ conns[c].request.v.originator_port = conns[c].peer_port

\* task i waits for a lock another task holds
Waiting(i) == tasks[i].pc = "spawned" /\ ~LockFree(i)

\* C24: no entry's value is mutated by two discovery tasks: each spawned task
\* works on its own clone of exactly one entry behind its own mutex, which no
\* other task locks, so no task ever waits for a lock held by another task,
\* also when several entries have the same host.
C24_TasksOwnTheirClones ==
    \A i \in Spawned(tasks) :
        /\ ~Waiting(i)
        /\ \A j \in Spawned(tasks) \ {i} : mutex_of(j) # mutex_of(i)
        /\ tasks[i].temp_db = [databases[i] EXCEPT !.databases = tasks[i].temp_db.databases]
        /\ tasks[i].pc \notin {"pushed", "finished"}
            => tasks[i].temp_db = databases[i]

C24_Witness ==
    /\ Len(tasks) > 1
    /\ databases[1] = databases[2]
    /\ tasks[1].pc = "queried"
    /\ tasks[2].pc = "pushed"
    /\ tasks[1].temp_db # tasks[2].temp_db

\* the failing task whose entry comes first in the collection
FirstInOrder(i) ==
    /\ i \in Failed(tasks)
    /\ \A j \in Failed(tasks) : i <= j

\* C27: when two or more tasks fail, the call returns the error of the
\* failing task whose entry comes first in collection (spawn) order, whatever
\* the order in which the tasks failed; the later failing tasks' errors are
\* not returned.
C27_FirstErrorInSpawnOrder ==
    (call_pc = "returned" /\ Cardinality(Failed(tasks)) >= 2)
    => /\ ~call_result.ok
       /\ FirstInOrder(call_result.from)
       /\ call_result.err = tasks[call_result.from].res

C27_Witness ==
    /\ call_pc = "returned"
    /\ Cardinality(Failed(tasks)) >= 2
    /\ call_result.from = 1
    /\ \E j \in Failed(tasks) :
          /\ j > 1
          /\ tasks[j].first_failure
          /\ tasks[j].res # tasks[1].res
          /\ call_result.err # tasks[j].res

\* connection c is being served by its handle_connection task
InFlight(c) == conns[c].st \in {"opening", "relaying"}

\* C25: the accept loop is never blocked by a connection it has accepted:
\* whatever the earlier connections are doing, the loop, unless it has left
\* through the shutdown branch, is at its select!, where it can accept a
\* queued connection and can observe the shutdown signal.
C25_LoopNotBlockedByConnections ==
    /\ (loop_pc \notin {"none", "select"}) => shutdown_tx = "dropped"
    /\ \A c \in ConnIds :
          (loop_pc = "select" /\ conns[c].st = "pending")
          => ENABLED LoopAccept(c)
    /\ (loop_pc = "select" /\ shutdown_tx = "dropped") => ENABLED LoopShutdown

C25_Witness ==
    /\ loop_pc = "select"
    /\ shutdown_tx = "dropped"
    /\ \E c, d \in ConnIds :
          /\ InFlight(c)
          /\ conns[d].st = "pending"
          /\ ENABLED LoopAccept(d)
    /\ ENABLED LoopShutdown

\* C26: once shutdown() has been called, the loop accepts no further local
\* connection and no new forwarded channel is opened, even if local
\* connections are pending at that moment.
C26_NothingAcceptedAfterShutdown ==
    \A c \in ConnIds :
        /\ conns[c].accepted_with # "dropped"
        /\ conns[c].requested_with # "dropped"

\* C28: a run that fails at connect, key loading or authentication has bound
\* no listener and spawned no accept loop; a run that fails at bind has
\* spawned no accept loop and returns no handle; a listener exists only for
\* an authenticated session.
C28_NoListenerBeforeAuthentication ==
    /\ run_result \in {"SshConnection", "SshKey", "Connection"}
         => listener = "none" /\ loop_pc = "none" /\ shutdown_tx = "none"
    /\ run_result = "Io" => loop_pc = "none" /\ shutdown_tx = "none"
    /\ listener # "none" => auth_success = "success"
    /\ loop_pc # "none" => listener # "none" /\ run_result = "Ok"

C28_Witness ==
    /\ run_pc = "returned"
    /\ run_result = "Connection"
    /\ auth_success = "failure"
    /\ listener = "none"
    /\ loop_pc = "none"

\* the entries of the collection that collide with the value being added
Colliding(dbs, database) == {i \in DOMAIN dbs : SameBackend(dbs[i], database)}

C30_FlagsMirrorSections ==
    builder # NoBuilder
    => /\ (call # NoCall /\ call.res = "Err") => builder = call.pre
       /\ builder.pgbouncer_setting
            <=> contains_key(builder.config, "pg-bouncer-setting")
       /\ builder.databases_setting
            <=> contains_key(builder.config, "databases")

====
